---------------------------- MODULE Spec2Model ----------------------------
(***************************************************************************)
(* The e-mail OTP life cycle of backend/api/serializers.py:                *)
(* SendOTPSerializer, VerifyOTPSerializer and RegisterSerializer, together *)
(* with the record store (EmailOTP), the user directory (User) and the     *)
(* wall clock they read.                                                   *)
(*                                                                         *)
(* Strings are sequences of characters, so that strip() and lower() are    *)
(* computed and not assumed.  Time is counted in ticks; creating a record  *)
(* takes one tick, so that created_at orders the records of the store.     *)
(* The outcome of a request is a function of the state it is made in: the  *)
(* validators are operators giving the errors ({} when there are none) and *)
(* the actions apply what the handlers write.                              *)
(*                                                                         *)
(* Spec and SpecTwoNames run whole requests one after another.             *)
(* SpecVerifyRace and SpecFinalizeRace run two requests at once on one     *)
(* record, with the read and the write of a handler as separate steps;     *)
(* calls holds what each request under way has read.                       *)
(***************************************************************************)
EXTENDS Integers, Sequences, FiniteSets, TLC

VARIABLES otps, users, now, nextId, calls, compared

vars == <<otps, users, now, nextId>>

\* with the requests under way and the count of the codes compared
allvars == <<otps, users, now, nextId, calls, compared>>

-----------------------------------------------------------------------------
(* Bounds of the model *)

MaxTime == 3
MaxOTPs == 2
MaxCompared == 6

(* Program constants *)

MaxAttempts == 5
TTL == 2
PURPOSE_REGISTRATION == "registration"

-----------------------------------------------------------------------------
(* Inputs *)

C1x == <<"1", "2", "3", "4", "5", "6">>
C0x == <<"0", "0", "0", "0", "0", "0">>

\* six-character codes: those the generator hands out and a client submits
Codes == {C1x, C0x}

\* the addresses for which a code is requested, as a client types them
IssueEmails == {<<"A", " ">>}

\* the addresses a verification may name
RawEmails == IssueEmails \cup {<<"a">>, <<"b">>}

\* the addresses a registration may name; the field may also be left blank
RegisterEmails == IssueEmails \cup {<<"b">>, <<>>}

RawUsernames == {<<" ", "U">>, <<"-">>}

\* with a second username that passes validate_username
MoreUsernames == RawUsernames \cup {<<"V">>}

\* an address in other letter cases and with surrounding blanks
EmailVariants ==
    {<<"a">>, <<"A">>, <<" ", "a">>, <<"A", " ">>, <<" ", "A", " ">>,
     <<"b">>, <<" ", "B">>}

\* where an exception may cut create short
AbortPoints == {"none", "create_user"}

\* the requests that may be under way at the same time
Calls == {"c1", "c2"}

\* a request that is not under way
Idle == [pc |-> "idle", id |-> 0, attempts |-> 0, username |-> <<>>,
         email |-> <<>>]

-----------------------------------------------------------------------------
(* str.strip(), str.lower(), str.isalnum(), __iexact *)

LowerChar(c) ==
    CASE c = "A" -> "a"
      [] c = "B" -> "b"
      [] c = "U" -> "u"
      [] c = "V" -> "v"
      [] OTHER -> c

Lower(s) == [i \in 1..Len(s) |-> LowerChar(s[i])]

RECURSIVE LStrip(_)
LStrip(s) == IF s # <<>> /\ Head(s) = " " THEN LStrip(Tail(s)) ELSE s

RECURSIVE RStrip(_)
RStrip(s) ==
    IF s # <<>> /\ s[Len(s)] = " " THEN RStrip(SubSeq(s, 1, Len(s) - 1)) ELSE s

Strip(s) == RStrip(LStrip(s))

AlnumChars == {"a", "A", "b", "B", "u", "U", "v", "V",
               "0", "1", "2", "3", "4", "5", "6"}

IsAlnum(s) == s # <<>> /\ \A i \in 1..Len(s) : s[i] \in AlnumChars

IExact(x, y) == Lower(x) = Lower(y)

-----------------------------------------------------------------------------
(* The record store and the user directory *)

None == [id |-> 0]

\* EmailOTP.is_expired: the clock is past created_at plus the validity window
is_expired(otp) == now > otp.created_at + TTL

\* the same query ordered by "created_at", oldest first
NewestFirst_Oldest(S) ==
    IF S = {} THEN None
    ELSE CHOOSE r \in S : \A q \in S : r.created_at <= q.created_at

\* QuerySet.order_by("-created_at").first()
NewestFirst(S) ==
    IF S = {} THEN None
    ELSE CHOOSE r \in S : \A q \in S : q.created_at <= r.created_at

\* User.objects.filter(email__iexact=...).exists()
EmailExists(email) == \E u \in users : IExact(u.email, email)

\* User.objects.filter(username=...).exists()
UsernameExists(username) == \E u \in users : u.username = username

TypeOK ==
    /\ now \in 0..MaxTime
    /\ nextId \in 1..(MaxOTPs + 1)
    /\ \A r \in otps :
          /\ r.id \in 1..(nextId - 1)
          /\ r.token = r.id
          /\ r.code \in Codes
          /\ r.attempts \in Nat
          /\ r.is_verified \in BOOLEAN
          /\ r.created_at \in 0..(now - 1)
    /\ \A r, q \in otps : r.created_at = q.created_at => r = q
    /\ \A u \in users : u.has_profile

Init ==
    /\ otps = {}
    /\ users = {}
    /\ now = 0
    /\ nextId = 1
    /\ calls = [c \in Calls |-> Idle]
    /\ compared = 0

-----------------------------------------------------------------------------
(* SendOTP: SendOTPSerializer.validate_email, then the creation of a record *)

SendOTPSerializer_validate_email(value) ==
    LET normalized == Lower(Strip(value))
    IN  IF EmailExists(normalized)
        THEN [errors |-> {"EmailInUse"}, value |-> normalized]
        ELSE [errors |-> {}, value |-> normalized]

\* EmailOTP.objects.create(email, code, token, purpose)
NewOTP(email, code) ==
    [id |-> nextId, email |-> email, code |-> code, token |-> nextId,
     purpose |-> PURPOSE_REGISTRATION, created_at |-> now, attempts |-> 0,
     is_verified |-> FALSE]

\* the errors of a request for a code and the store it leaves
IssueOTPOutcome(raw, code) ==
    LET v == SendOTPSerializer_validate_email(raw)
    IN  IF v.errors # {}
        THEN [errors |-> v.errors, otps |-> otps, token |-> 0]
        ELSE [errors |-> {}, otps |-> otps \cup {NewOTP(v.value, code)},
              token |-> nextId]

IssueOTP(raw, code) ==
    LET out == IssueOTPOutcome(raw, code)
    IN  IF out.errors # {}
        THEN UNCHANGED allvars
        ELSE /\ nextId <= MaxOTPs
             /\ now < MaxTime
             /\ otps' = out.otps
             /\ nextId' = nextId + 1
             /\ now' = now + 1
             /\ UNCHANGED <<users, calls, compared>>

-----------------------------------------------------------------------------
(* VerifyOTP: VerifyOTPSerializer.validate, then the record is marked *)

\* the checks with the lock tested before the expiry
VerifyChecks_LockFirst(otp, code) ==
    IF otp = None THEN "NotFound"
    ELSE IF otp.attempts >= MaxAttempts THEN "AttemptsExceeded"
    ELSE IF is_expired(otp) THEN "Expired"
    ELSE IF otp.code # code THEN "CodeMismatch"
    ELSE "Ok"

\* the checks with the lock at attempts > 5
VerifyChecks_OneMore(otp, code) ==
    IF otp = None THEN "NotFound"
    ELSE IF is_expired(otp) THEN "Expired"
    ELSE IF otp.attempts > MaxAttempts THEN "AttemptsExceeded"
    ELSE IF otp.code # code THEN "CodeMismatch"
    ELSE "Ok"

\* the checks with the lock at attempts >= 4
VerifyChecks_OneLess(otp, code) ==
    IF otp = None THEN "NotFound"
    ELSE IF is_expired(otp) THEN "Expired"
    ELSE IF otp.attempts >= MaxAttempts - 1 THEN "AttemptsExceeded"
    ELSE IF otp.code # code THEN "CodeMismatch"
    ELSE "Ok"

\* the ordered checks of validate on the selected record
VerifyChecks(otp, code) ==
    IF otp = None THEN "NotFound"
    ELSE IF is_expired(otp) THEN "Expired"
    ELSE IF otp.attempts >= MaxAttempts THEN "AttemptsExceeded"
    ELSE IF otp.code # code THEN "CodeMismatch"
    ELSE "Ok"

\* a save that counts a wrong code twice
SaveAttempts_Twice(otp) ==
    (otps \ {otp}) \cup {[otp EXCEPT !.attempts = otp.attempts + 2]}

\* otp.attempts += 1; otp.save(update_fields=["attempts"])
SaveAttempts(otp) ==
    (otps \ {otp}) \cup {[otp EXCEPT !.attempts = otp.attempts + 1]}

\* a validate that counts every failed verification of a record
VerifyStore_AlwaysCount(otp, outcome) ==
    IF outcome \in {"CodeMismatch", "Expired", "AttemptsExceeded"}
    THEN SaveAttempts(otp) ELSE otps

\* what validate leaves in the store on each branch
VerifyStore(otp, outcome) ==
    IF outcome = "CodeMismatch" THEN SaveAttempts(otp) ELSE otps

\* the record validate works on
VerifyLookup(value) ==
    LET email == Lower(Strip(value))
    IN  NewestFirst({r \in otps : /\ IExact(r.email, email)
                                  /\ r.purpose = PURPOSE_REGISTRATION})

VerifyOTPSerializer_validate(attrs_email, attrs_code) ==
    LET code == Strip(attrs_code)
        otp == VerifyLookup(attrs_email)
        outcome == VerifyChecks(otp, code)
    IN  [errors |-> IF outcome = "Ok" THEN {} ELSE {outcome},
         store |-> VerifyStore(otp, outcome),
         otp |-> IF outcome = "Ok" THEN otp ELSE None]

\* otp.is_verified = True; otp.save()
MarkVerified(store, otp) ==
    (store \ {otp}) \cup {[otp EXCEPT !.is_verified = TRUE]}

\* the errors of a verification, the store it leaves and the record it
\* hands back
VerifyOTPOutcome(raw, code) ==
    LET v == VerifyOTPSerializer_validate(raw, code)
    IN  IF v.errors # {}
        THEN [errors |-> v.errors, otps |-> v.store, otp |-> None]
        ELSE [errors |-> {}, otps |-> MarkVerified(v.store, v.otp),
              otp |-> v.otp]

VerifyOTP(raw, code) ==
    /\ otps' = VerifyOTPOutcome(raw, code).otps
    /\ UNCHANGED <<users, now, nextId, calls, compared>>

-----------------------------------------------------------------------------
(* FinalizeRegistration: RegisterSerializer's field validators, validate,  *)
(* and create                                                              *)

RegisterSerializer_validate_username(value) ==
    LET normalized == Strip(value)
    IN  IF normalized = <<>>
        THEN [errors |-> {"UsernameBlank"}, value |-> normalized]
        ELSE IF ~IsAlnum(normalized)
        THEN [errors |-> {"UsernameNotAlnum"}, value |-> normalized]
        ELSE IF UsernameExists(Lower(normalized))
        THEN [errors |-> {"UsernameExists"}, value |-> Lower(normalized)]
        ELSE [errors |-> {}, value |-> Lower(normalized)]

\* a validate_email that does not look for an account
RegisterSerializer_validate_email_NoLookup(value) ==
    LET normalized == Lower(Strip(value))
    IN  [errors |-> {}, value |-> normalized]

RegisterSerializer_validate_email(value) ==
    LET normalized == Lower(Strip(value))
    IN  IF EmailExists(normalized)
        THEN [errors |-> {"EmailInUse"}, value |-> normalized]
        ELSE [errors |-> {}, value |-> normalized]

\* the record validate works on
RegisterLookup(email, token) ==
    NewestFirst({r \in otps : /\ r.token = token
                              /\ r.purpose = PURPOSE_REGISTRATION
                              /\ IExact(r.email, email)})

\* a validate that does not read is_verified
RegisterSerializer_validate_Unverified(email, token) ==
    IF email = <<>>
    THEN [errors |-> {"EmailRequired"}, otp |-> None]
    ELSE LET otp == RegisterLookup(email, token)
         IN  IF otp = None \/ is_expired(otp)
             THEN [errors |-> {"InvalidOrExpiredToken"}, otp |-> None]
             ELSE [errors |-> {}, otp |-> otp]

\* a validate that does not read is_expired
RegisterSerializer_validate_NoExpiry(email, token) ==
    IF email = <<>>
    THEN [errors |-> {"EmailRequired"}, otp |-> None]
    ELSE LET otp == RegisterLookup(email, token)
         IN  IF otp = None \/ ~otp.is_verified
             THEN [errors |-> {"InvalidOrExpiredToken"}, otp |-> None]
             ELSE [errors |-> {}, otp |-> otp]

\* validate: the e-mail must be there, and the record of the token must be
\* verified and unexpired
RegisterSerializer_validate(email, token) ==
    IF email = <<>>
    THEN [errors |-> {"EmailRequired"}, otp |-> None]
    ELSE LET otp == RegisterLookup(email, token)
         IN  IF otp = None \/ ~otp.is_verified \/ is_expired(otp)
             THEN [errors |-> {"InvalidOrExpiredToken"}, otp |-> None]
             ELSE [errors |-> {}, otp |-> otp]

\* Serializer.is_valid: the field validators, and validate only when every
\* field passed
RegisterSerializer_is_valid(raw, rawname, token) ==
    LET un == RegisterSerializer_validate_username(rawname)
        em == RegisterSerializer_validate_email(raw)
        fielderrors == un.errors \cup em.errors
        v == RegisterSerializer_validate(em.value, token)
    IN  IF fielderrors # {}
        THEN [errors |-> fielderrors, username |-> un.value,
              email |-> em.value, otp |-> None]
        ELSE [errors |-> v.errors, username |-> un.value,
              email |-> em.value, otp |-> v.otp]

\* create_user, then UserProfile.objects.get_or_create and profile.save()
NewUser(username, email) ==
    [username |-> username, email |-> email, has_profile |-> TRUE]

\* a create that keeps the record
RegisterSerializer_create_NoDelete(username, email, otp_instance, abort) ==
    LET normalized_email == Lower(Strip(email))
    IN  IF abort = "create_user"
        THEN [users |-> users, otps |-> otps]
        ELSE [users |-> users \cup {NewUser(username, normalized_email)},
              otps |-> otps]

\* a create that deletes the record before it creates the account
RegisterSerializer_create_DeleteFirst(username, email, otp_instance, abort) ==
    LET normalized_email == Lower(Strip(email))
    IN  IF abort = "create_user"
        THEN [users |-> users, otps |-> otps \ {otp_instance}]
        ELSE [users |-> users \cup {NewUser(username, normalized_email)},
              otps |-> otps \ {otp_instance}]

\* the user directory and the store after create, which an exception of
\* create_user cuts short before anything is written
RegisterSerializer_create(username, email, otp_instance, abort) ==
    LET normalized_email == Lower(Strip(email))
    IN  IF abort = "create_user"
        THEN [users |-> users, otps |-> otps]
        ELSE [users |-> users \cup {NewUser(username, normalized_email)},
              otps |-> otps \ {otp_instance}]

\* the errors of a registration, and the user directory and the store it
\* leaves
FinalizeOutcome(raw, rawname, token, abort) ==
    LET d == RegisterSerializer_is_valid(raw, rawname, token)
        c == RegisterSerializer_create(d.username, d.email, d.otp, abort)
    IN  IF d.errors # {}
        THEN [errors |-> d.errors, users |-> users, otps |-> otps]
        ELSE [errors |-> IF abort = "none" THEN {} ELSE {"ServerError"},
              users |-> c.users, otps |-> c.otps]

\* an exception can only cut short a create that was reached
FinalizeRegistration(raw, rawname, token) ==
    \E abort \in IF RegisterSerializer_is_valid(raw, rawname, token).errors = {}
                 THEN AbortPoints ELSE {"none"} :
        LET out == FinalizeOutcome(raw, rawname, token, abort)
        IN  /\ users' = out.users
            /\ otps' = out.otps
            /\ UNCHANGED <<now, nextId, calls, compared>>

-----------------------------------------------------------------------------
(* The wall clock *)

Tick ==
    /\ now < MaxTime
    /\ now' = now + 1
    /\ UNCHANGED <<otps, users, nextId, calls, compared>>

-----------------------------------------------------------------------------

Next ==
    \/ \E raw \in IssueEmails, code \in Codes : IssueOTP(raw, code)
    \/ \E raw \in RawEmails, code \in Codes : VerifyOTP(raw, code)
    \/ \E raw \in RegisterEmails, rawname \in RawUsernames,
          token \in 1..MaxOTPs :
            FinalizeRegistration(raw, rawname, token)
    \/ Tick

\* whole requests, one after another: none is ever under way
Spec == Init /\ [][Next]_allvars

\* the same requests with two usernames to register under
NextTwoNames ==
    \/ \E raw \in IssueEmails, code \in Codes : IssueOTP(raw, code)
    \/ \E raw \in RawEmails, code \in Codes : VerifyOTP(raw, code)
    \/ \E raw \in RegisterEmails, rawname \in MoreUsernames,
          token \in 1..MaxOTPs :
            FinalizeRegistration(raw, rawname, token)
    \/ Tick

SpecTwoNames == Init /\ [][NextTwoNames]_allvars

-----------------------------------------------------------------------------
(* VerifyOTP: the order of the checks and the success path *)

\* C1: VerifyOTP reports the first check that fails, in the order NotFound,
\* Expired, AttemptsExceeded, CodeMismatch: in every reachable state and for
\* every submitted code, a selected record that is expired yields Expired even
\* with attempts >= 5, an unexpired one with attempts >= 5 yields
\* AttemptsExceeded whether or not the code matches, and only then is the code
\* compared.
C1_CheckOrder ==
    \A raw \in RawEmails, code \in Codes :
        LET match == {r \in otps : /\ Lower(r.email) = Lower(Strip(raw))
                                    /\ r.purpose = PURPOSE_REGISTRATION}
            errors == VerifyOTPOutcome(raw, code).errors
        IN  /\ match = {} => errors = {"NotFound"}
            /\ \A r \in match :
                  (\A q \in match : q.created_at <= r.created_at) =>
                    /\ is_expired(r) => errors = {"Expired"}
                    /\ ~is_expired(r) /\ r.attempts >= MaxAttempts
                          => errors = {"AttemptsExceeded"}
                    /\ ~is_expired(r) /\ r.attempts < MaxAttempts /\ r.code # code
                          => errors = {"CodeMismatch"}

\* a selected record that is both expired and locked
C1_Witness ==
    \E raw \in RawEmails :
        LET otp == VerifyLookup(raw)
        IN  otp # None /\ is_expired(otp) /\ otp.attempts >= MaxAttempts

\* C2: when the record exists, is not expired, has attempts < 5 and the
\* submitted code equals its code, VerifyOTP succeeds, hands back that record
\* and leaves it in the store with is_verified = TRUE; whenever VerifyOTP
\* succeeds the record it selected is verified in the store it leaves.
C2_SuccessMarksVerified ==
    \A raw \in RawEmails, code \in Codes :
        LET match == {r \in otps : /\ Lower(r.email) = Lower(Strip(raw))
                                    /\ r.purpose = PURPOSE_REGISTRATION}
            out == VerifyOTPOutcome(raw, code)
        IN  \A r \in match :
              (\A q \in match : q.created_at <= r.created_at) =>
                /\ (~is_expired(r) /\ r.attempts < MaxAttempts /\ r.code = code)
                      => /\ out.errors = {}
                         /\ out.otp = r
                /\ out.errors = {}
                      => /\ [r EXCEPT !.is_verified = TRUE] \in out.otps
                         /\ \A q \in out.otps : q.id = r.id => q.is_verified

\* a record that a successful verification has marked
C2_Witness ==
    \E r \in otps : r.is_verified /\ r.attempts < MaxAttempts /\ ~is_expired(r)

\* C3 as stated: a selected record with attempts = 5 makes every VerifyOTP
\* fail with AttemptsExceeded.
C3_AlwaysAttemptsExceeded ==
    \A raw \in RawEmails, code \in Codes :
        LET otp == VerifyLookup(raw)
        IN  (otp # None /\ otp.attempts = MaxAttempts)
              => VerifyOTPOutcome(raw, code).errors = {"AttemptsExceeded"}

\* C3 (amended): once a record has attempts = 5, every VerifyOTP that selects
\* it fails and leaves the store as it is, with AttemptsExceeded while the
\* record is unexpired and with Expired once it has expired, the correct code
\* included; no step changes the is_verified or the attempts of such a record.
C3_LockedStaysLocked ==
    /\ [](\A raw \in RawEmails, code \in Codes :
            LET otp == VerifyLookup(raw)
                out == VerifyOTPOutcome(raw, code)
            IN  (otp # None /\ otp.attempts = MaxAttempts)
                  => /\ out.errors = IF is_expired(otp) THEN {"Expired"}
                                     ELSE {"AttemptsExceeded"}
                     /\ out.otps = otps)
    /\ [][\A r \in otps : r.attempts = MaxAttempts =>
             \A q \in otps' : q.id = r.id =>
                 q.is_verified = r.is_verified /\ q.attempts = r.attempts]_vars

\* an unverified, unexpired record locked by five wrong codes
C3_Witness ==
    \E raw \in RawEmails :
        LET otp == VerifyLookup(raw)
        IN  /\ otp # None /\ otp.attempts = MaxAttempts
            /\ ~otp.is_verified /\ ~is_expired(otp)


-----------------------------------------------------------------------------
(* FinalizeRegistration *)

C5_SecondFinalizeFails ==
    /\ [][users' # users =>
           \A raw \in RegisterEmails, rawname \in RawUsernames,
              token \in 1..MaxOTPs :
             LET first == FinalizeOutcome(raw, rawname, token, "none")
             IN  (first.errors = {} /\ users' = first.users
                                    /\ otps' = first.otps)
                   => /\ \E r \in otps : r.token = token
                      /\ \A r \in otps' : r.token # token
                      /\ Cardinality(users') = Cardinality(users) + 1
        ]_vars
    /\ [](\A token \in 1..(nextId - 1) :
            (\A r \in otps : r.token # token) =>
              \A raw \in RegisterEmails, rawname \in RawUsernames,
                 abort \in AbortPoints :
                LET second == FinalizeOutcome(raw, rawname, token, abort)
                IN  /\ second.errors # {}
                    /\ second.users = users
                    /\ second.otps = otps
                    /\ RegisterLookup(Lower(Strip(raw)), token) = None)

\* an account has been created and the record it consumed is gone
C5_Witness ==
    /\ \E u \in users : u.has_profile
    /\ \E token \in 1..(nextId - 1) : \A r \in otps : r.token # token

-----------------------------------------------------------------------------
(* What VerifyOTP writes *)

\* C6 as stated: VerifyOTP writes only on the CodeMismatch branch, where it
\* raises the attempts of the selected record by one; on every other branch,
\* success included, the store is left as it is.
C6_OnlyMismatchWrites ==
    \A raw \in RawEmails, code \in Codes :
        LET otp == VerifyLookup(raw)
            out == VerifyOTPOutcome(raw, code)
        IN  IF out.errors = {"CodeMismatch"}
            THEN out.otps =
                   (otps \ {otp}) \cup {[otp EXCEPT !.attempts = otp.attempts + 1]}
            ELSE out.otps = otps

\* C6 (amended): VerifyOTP changes the attempts counter only on the
\* CodeMismatch branch, where it raises it by exactly one and persists it; on
\* NotFound, Expired and AttemptsExceeded the store is left as it is, and on
\* success the only field written is is_verified of the selected record.
C6_AttemptsOnlyOnMismatch ==
    \A raw \in RawEmails, code \in Codes :
        LET otp == VerifyLookup(raw)
            out == VerifyOTPOutcome(raw, code)
        IN  /\ out.errors \in {{}, {"NotFound"}, {"Expired"},
                               {"AttemptsExceeded"}, {"CodeMismatch"}}
            /\ out.errors = {"CodeMismatch"} =>
                 out.otps =
                   (otps \ {otp}) \cup {[otp EXCEPT !.attempts = otp.attempts + 1]}
            /\ out.errors = {} =>
                 out.otps = (otps \ {otp}) \cup {[otp EXCEPT !.is_verified = TRUE]}
            /\ out.errors \notin {{}, {"CodeMismatch"}} => out.otps = otps

\* a record that wrong codes were counted against and that has since expired
C6_Witness ==
    \E raw \in RawEmails :
        LET otp == VerifyLookup(raw)
        IN  otp # None /\ otp.attempts > 0 /\ otp.attempts < MaxAttempts
            /\ is_expired(otp)

\* C7: no step raises the attempts of a record whose is_verified is TRUE.
C7_NoAttemptsAfterVerified ==
    [][\A r \in otps : r.is_verified =>
          \A q \in otps' : q.id = r.id => q.attempts = r.attempts]_vars

\* C8: VerifyOTP with the code of the record just issued succeeds, and
\* VerifyOTP on a record that is already verified does not succeed again.
C8_VerifiesExactlyOnce ==
    \A raw \in RawEmails, code \in Codes :
        LET otp == VerifyLookup(raw)
            out == VerifyOTPOutcome(raw, code)
        IN  otp # None =>
              /\ (otp.created_at = now - 1 /\ otp.attempts = 0
                    /\ ~otp.is_verified /\ code = otp.code) => out.errors = {}
              /\ otp.is_verified => out.errors # {}

-----------------------------------------------------------------------------
(* Deletion and supersession *)

\* C9: a record leaves the store only in a step that is a successful
\* FinalizeRegistration on it: the record was verified and unexpired, it alone
\* is removed, and the same step leaves a new account with its profile; a
\* primary key that has left the store never comes back, so a record is
\* deleted at most once.
C9_DeletedOnlyByFinalize ==
    [][/\ \A r \in otps : (\A q \in otps' : q.id # r.id) =>
             /\ otps' = otps \ {r}
             /\ r.is_verified /\ ~is_expired(r)
             /\ \E u \in users' \ users :
                   u.has_profile /\ u.email = r.email
             /\ \E raw \in RegisterEmails, rawname \in RawUsernames :
                   FinalizeOutcome(raw, rawname, r.token, "none").errors = {}
             /\ UNCHANGED <<now, nextId>>
       /\ \A id \in 1..(nextId - 1) :
             (\A r \in otps : r.id # id) => (\A q \in otps' : q.id # id)
      ]_vars

\* a record has been deleted while an older or newer one is still stored
C9_Witness ==
    /\ \E id \in 1..(nextId - 1) : \A r \in otps : r.id # id
    /\ otps # {}
    /\ users # {}

\* C10: when two records exist for an e-mail, VerifyOTP judges the submitted
\* code against the one created last: the older record's code, when it differs
\* from the newer one's, is rejected as CodeMismatch and counted against the
\* newer record while that record is unexpired and unlocked, the newer
\* record's code is accepted, and the older record stays in the store with
\* every field unchanged.
C10_NewestRecordJudged ==
    \A raw \in RawEmails, code \in Codes :
        LET match == {r \in otps : /\ Lower(r.email) = Lower(Strip(raw))
                                    /\ r.purpose = PURPOSE_REGISTRATION}
            out == VerifyOTPOutcome(raw, code)
        IN  \A r1, r2 \in match :
              (/\ r1.created_at < r2.created_at
               /\ \A q \in match : q.created_at <= r2.created_at) =>
                /\ r1 \in out.otps
                /\ \A q \in out.otps : q.id # r2.id => q \in otps
                /\ out.otp \in {None, r2}
                /\ (~is_expired(r2) /\ r2.attempts < MaxAttempts) =>
                     /\ code = r2.code => out.errors = {}
                     /\ (code = r1.code /\ r1.code # r2.code) =>
                          /\ out.errors = {"CodeMismatch"}
                          /\ [r2 EXCEPT !.attempts = r2.attempts + 1] \in out.otps

\* the older record's code has been counted against the newer record
C10_Witness ==
    \E r1, r2 \in otps :
        /\ r1.email = r2.email /\ r1.created_at < r2.created_at
        /\ r1.code # r2.code
        /\ r1.attempts = 0 /\ ~r1.is_verified
        /\ r2.attempts > 0 /\ ~is_expired(r2)

-----------------------------------------------------------------------------
(* Supersession, expiry and the attempts budget *)

\* C11: once a newer record has been issued for an e-mail the older record is
\* superseded: FinalizeRegistration presented with the older record's token
\* fails and creates no account, whatever the state of the older record.
C11_OlderTokenSuperseded ==
    \A raw \in RegisterEmails, rawname \in RawUsernames, abort \in AbortPoints :
        \A r1, r2 \in otps :
            (/\ r1.purpose = PURPOSE_REGISTRATION
             /\ r2.purpose = PURPOSE_REGISTRATION
             /\ Lower(r1.email) = Lower(Strip(raw))
             /\ Lower(r2.email) = Lower(Strip(raw))
             /\ r1.created_at < r2.created_at) =>
                LET out == FinalizeOutcome(raw, rawname, r1.token, abort)
                IN  /\ out.errors # {}
                    /\ out.users = users

C13_CorrectCodeAfterWrongOnes ==
    \A raw \in RawEmails, code \in Codes :
        LET match == {r \in otps : /\ Lower(r.email) = Lower(Strip(raw))
                                    /\ r.purpose = PURPOSE_REGISTRATION}
            out == VerifyOTPOutcome(raw, code)
        IN  \A r \in match :
              (/\ \A q \in match : q.created_at <= r.created_at
               /\ now <= r.created_at + TTL
               /\ r.attempts \in 0..4) =>
                /\ code # r.code =>
                     /\ out.errors = {"CodeMismatch"}
                     /\ out.otps = (otps \ {r}) \cup
                                     {[r EXCEPT !.attempts = r.attempts + 1]}
                /\ code = r.code =>
                     /\ out.errors = {}
                     /\ out.otps = (otps \ {r}) \cup
                                     {[r EXCEPT !.is_verified = TRUE]}

\* four wrong codes have been counted against a record that is neither
\* verified nor expired
C13_Witness ==
    \E r \in otps :
        /\ r.attempts = 4 /\ ~r.is_verified /\ ~is_expired(r)
        /\ \A q \in otps : q.created_at <= r.created_at

-----------------------------------------------------------------------------
(* One account per e-mail *)

\* C16: in every run of whole requests, no two accounts have the same e-mail
\* up to letter case; the e-mail an account stores is trimmed and lower-cased;
\* and once an account exists for an e-mail, the e-mail validation of SendOTP
\* and of Register rejects every case and surrounding-blank variant of it with
\* the e-mail error, so no registration completes for the variant.
C16_OneAccountPerEmail ==
    /\ \A u1, u2 \in users :
          Lower(u1.email) = Lower(u2.email) => u1 = u2
    /\ \A u \in users :
          /\ u.email = Lower(Strip(u.email))
          /\ \A v \in EmailVariants :
               Lower(Strip(v)) = u.email =>
                 /\ SendOTPSerializer_validate_email(v).errors = {"EmailInUse"}
                 /\ RegisterSerializer_validate_email(v).errors = {"EmailInUse"}
                 /\ \A rawname \in MoreUsernames, token \in 1..MaxOTPs,
                       abort \in AbortPoints :
                      LET out == FinalizeOutcome(v, rawname, token, abort)
                      IN  /\ "EmailInUse" \in out.errors
                          /\ out.users = users

\* an account exists for the address typed "A ", and another verified record
\* for that address is still inside its validity window
C16_Witness ==
    /\ \E u \in users : u.email = <<"a">>
    /\ \E r \in otps : r.email = <<"a">> /\ r.is_verified /\ ~is_expired(r)

-----------------------------------------------------------------------------
(* VerifyOTP when two requests are under way at once.  validate reads the   *)
(* record (lines 272-273) and works on the copy it read; the save of line   *)
(* 282 writes the attempts of that copy, plus one, to the row of its        *)
(* primary key.  Nothing is locked between the two, so the read and the     *)
(* write are separate steps.  The race is run on one record: compared       *)
(* counts the wrong codes that validate compared with its code.             *)

\* the first record of the store, and no other
IssueFirstOTP(raw, code) ==
    /\ otps = {}
    /\ nextId = 1
    /\ IssueOTP(raw, code)

\* a save that adds one to the attempts the row holds when it is written
SaveAttemptsOf_Reread(call) ==
    {IF r.id = call.id THEN [r EXCEPT !.attempts = r.attempts + 1] ELSE r :
        r \in otps}

\* otp.attempts += 1; otp.save(update_fields=["attempts"]) on the copy that
\* was read
SaveAttemptsOf(call) ==
    {IF r.id = call.id THEN [r EXCEPT !.attempts = call.attempts + 1] ELSE r :
        r \in otps}

\* otp.is_verified = True; otp.save() on the copy that was read
MarkVerifiedOf(call) ==
    {IF r.id = call.id THEN [r EXCEPT !.is_verified = TRUE] ELSE r :
        r \in otps}

\* validate up to the test of the code: the record is read and judged
VerifyOTP_Read(c, raw, code) ==
    /\ calls[c].pc = "idle"
    /\ LET otp == VerifyLookup(raw)
           outcome == VerifyChecks(otp, Strip(code))
       IN  CASE outcome = "CodeMismatch" ->
                  /\ compared < MaxCompared
                  /\ compared' = compared + 1
                  /\ calls' = [calls EXCEPT ![c] =
                                 [Idle EXCEPT !.pc = "save_attempts",
                                              !.id = otp.id,
                                              !.attempts = otp.attempts]]
             [] outcome = "Ok" ->
                  /\ calls' = [calls EXCEPT ![c] =
                                 [Idle EXCEPT !.pc = "mark_verified",
                                              !.id = otp.id,
                                              !.attempts = otp.attempts]]
                  /\ UNCHANGED compared
             [] OTHER -> UNCHANGED <<calls, compared>>
    /\ UNCHANGED vars

\* the save of the mismatch branch
VerifyOTP_SaveAttempts(c) ==
    /\ calls[c].pc = "save_attempts"
    /\ otps' = SaveAttemptsOf(calls[c])
    /\ calls' = [calls EXCEPT ![c] = Idle]
    /\ UNCHANGED <<users, now, nextId, compared>>

\* the save of the success path
VerifyOTP_MarkVerified(c) ==
    /\ calls[c].pc = "mark_verified"
    /\ otps' = MarkVerifiedOf(calls[c])
    /\ calls' = [calls EXCEPT ![c] = Idle]
    /\ UNCHANGED <<users, now, nextId, compared>>

VerifyRaceNext ==
    \/ \E raw \in IssueEmails, code \in Codes : IssueFirstOTP(raw, code)
    \/ \E c \in Calls, raw \in RawEmails, code \in Codes :
          VerifyOTP_Read(c, raw, code)
    \/ \E c \in Calls : VerifyOTP_SaveAttempts(c)
    \/ \E c \in Calls : VerifyOTP_MarkVerified(c)
    \/ Tick

SpecVerifyRace == Init /\ [][VerifyRaceNext]_allvars

\* C14: with the read and the save of VerifyOTP as separate steps, every save
\* of a wrong submission stores the attempts its own read saw, plus one,
\* whatever the row holds by then, so two submissions that read the same
\* value leave it raised by one, not by two: the attempts of a record never
\* exceed, and can fall short of, the number of wrong codes compared with it,
\* and more than five wrong codes are compared with one record by the time
\* it locks.
C14_LostUpdate ==
    /\ [](\A r \in otps : r.attempts <= compared)
    /\ [][\A c \in Calls :
            (calls[c].pc = "save_attempts" /\ calls'[c].pc = "idle") =>
              \A q \in otps' :
                q.id = calls[c].id => q.attempts = calls[c].attempts + 1
       ]_allvars

\* the record is locked at five attempts after more than five wrong codes
\* were compared with it
C14_Witness ==
    /\ \A c \in Calls : calls[c].pc = "idle"
    /\ \E r \in otps : r.attempts = MaxAttempts /\ compared > MaxAttempts

\* C17: in every reachable state, those reached by interleaved reads and
\* saves of VerifyOTP included, the attempts of a record lie in 0..5, and no
\* step lowers them.
C17_AttemptsOnlyGrow ==
    /\ [](\A r \in otps : r.attempts \in 0..MaxAttempts)
    /\ [][\A r \in otps : \A q \in otps' :
            q.id = r.id => q.attempts >= r.attempts
       ]_allvars

-----------------------------------------------------------------------------
(* FinalizeRegistration when two requests are under way at once: is_valid   *)
(* (the field validators and validate, lines 45-78) and create (lines       *)
(* 80-107) are separate steps, and nothing is locked between them.  create  *)
(* works on the username, the e-mail and the record that is_valid handed    *)
(* over; create_user raises for a username that is taken by then, and       *)
(* delete() removes the row of the record's primary key if it is there.     *)

\* the row of a primary key, None when it is gone
Stored(id) == NewestFirst({r \in otps : r.id = id})

\* is_valid: what it hands over is kept for create
FinalizeRegistration_Validate(c, raw, rawname, token) ==
    /\ calls[c].pc = "idle"
    /\ LET d == RegisterSerializer_is_valid(raw, rawname, token)
       IN  IF d.errors = {}
           THEN calls' = [calls EXCEPT ![c] =
                            [Idle EXCEPT !.pc = "create",
                                         !.id = d.otp.id,
                                         !.username = d.username,
                                         !.email = d.email]]
           ELSE UNCHANGED calls
    /\ UNCHANGED <<vars, compared>>

\* create, on what is_valid handed over
FinalizeRegistration_Create(c) ==
    /\ calls[c].pc = "create"
    /\ \E abort \in AbortPoints :
          LET call == calls[c]
              out == RegisterSerializer_create(
                         call.username, call.email, Stored(call.id),
                         IF UsernameExists(call.username)
                         THEN "create_user" ELSE abort)
          IN  /\ users' = out.users
              /\ otps' = out.otps
    /\ calls' = [calls EXCEPT ![c] = Idle]
    /\ UNCHANGED <<now, nextId, compared>>

FinalizeRaceNext ==
    \/ \E raw \in IssueEmails, code \in Codes : IssueFirstOTP(raw, code)
    \/ \E raw \in RawEmails, code \in Codes : VerifyOTP(raw, code)
    \/ \E c \in Calls, raw \in RegisterEmails, rawname \in MoreUsernames,
          token \in 1..MaxOTPs :
            FinalizeRegistration_Validate(c, raw, rawname, token)
    \/ \E c \in Calls : FinalizeRegistration_Create(c)
    \/ Tick

SpecFinalizeRace == Init /\ [][FinalizeRaceNext]_allvars

\* C15: each record completes at most one registration in every
\* interleaving of the validation and the create of two requests: the
\* accounts never outnumber the records that were issued and are gone.
C15_OneRegistrationPerRecord ==
    Cardinality(users) <=
        Cardinality({token \in 1..(nextId - 1) :
                        \A r \in otps : r.token # token})

=============================================================================
